---- MODULE Spec2Model ----
(***************************************************************************)
(* State-machine model of the batch pipeline of                            *)
(* src/dicom_pipeline_Manager.py (DICOMPipelineManager) and of the health  *)
(* sweep, the remediation call and the audit scan of                       *)
(* src/dicom-image-sup.py (MedicalDeviceSupportSystem).                    *)
(*                                                                         *)
(* Python strings are sequences of one-character strings, so that          *)
(* `in`, endswith, + and ', '.join are computed, not assumed.              *)
(***************************************************************************)
EXTENDS Integers, Sequences, FiniteSets, TLC

\* ------------------------------------------------------------------ bounds
\* Largest number of objects in the bucket / of files handed to process_images.
MaxFiles == 3
\* Largest number of alarms the metrics service holds.
MaxAlarms == 2
\* Largest number of action targets configured on one alarm.
MaxActions == 2
\* Largest number of calls of auto_resolve_issues.
MaxCalls == 2
\* Largest number of records that match the audit query.
MaxRecords == 2

\* ------------------------------------------------------- program constants
\* range(5): the stages of the transformation.
NumStages == 5
\* range(3): the sub-operations of one stage.
NumSubOps == 3

\* ---------------------------------------------------------------- strings
\* '.dcm', the suffix fetch_dicom_files filters on.
DcmSuffix == <<".", "d", "c", "m">>
\* 'processed', the substring process_images tests for.
ProcessedMarker == <<"p", "r", "o", "c", "e", "s", "s", "e", "d">>
\* '_processed', what process_images appends to a key.
ProcessedSuffix == <<"_">> \o ProcessedMarker
\* ', ', the separator of the completion message.
JoinSep == <<",", " ">>
\* The fixed head of the completion message, kept as one token.
MessageHead == <<"Processing completed for files: ">>

\* Object keys the object store may hold.
KeyA == <<"a">> \o DcmSuffix
KeyB == <<"b">> \o DcmSuffix
KeyC == <<"c">> \o DcmSuffix \o ProcessedSuffix
KeyD == <<"d", "_">> \o ProcessedMarker \o DcmSuffix
KeyN == <<"n", ".", "t", "x", "t">>
KeyPool == {KeyA, KeyB, KeyC, KeyD, KeyN}

\* s.endswith(suffix)
EndsWith(s, suffix) ==
    /\ Len(suffix) <= Len(s)
    /\ SubSeq(s, Len(s) - Len(suffix) + 1, Len(s)) = suffix

\* sub in s
Contains(s, sub) ==
    \E p \in 1..(Len(s) - Len(sub) + 1) : SubSeq(s, p, p + Len(sub) - 1) = sub

RECURSIVE Join(_, _)
\* sep.join(parts)
Join(sep, parts) ==
    IF parts = <<>> THEN <<>>
    ELSE IF Len(parts) = 1 THEN parts[1]
    ELSE parts[1] \o sep \o Join(sep, Tail(parts))

\* Sequences over S of length at most n.
BoundedSeq(S, n) == UNION {[1..k -> S] : k \in 0..n}

\* Sequences over S with no element repeated, of length at most n.
DistinctSeq(S, n) ==
    {s \in BoundedSeq(S, n) : \A p, q \in 1..Len(s) : p # q => s[p] # s[q]}

\* ---------------------------------------------------------------- logging
\* logging.basicConfig(level=logging.INFO): records below INFO are dropped.
LevelNo(level) ==
    CASE level = "DEBUG" -> 10
      [] level = "INFO" -> 20
      [] level = "WARNING" -> 30
      [] level = "ERROR" -> 40

LogRecord(level, event, file, op) ==
    [level |-> level, event |-> event, file |-> file, op |-> op]

\* The records of recs the root logger emits.
Emitted(recs) == SelectSeq(recs, LAMBDA r : LevelNo(r.level) >= LevelNo("INFO"))

VARIABLES
    entry,            \* the method the caller invokes: run_pipeline or process_images
    bucket,           \* the object store's listing, in listing order
    pc,               \* the orchestrator's state
    trace,            \* the states the run has been in, in order
    list_call,        \* outcome of s3.list_objects_v2: "none", "ok", "failed"
    dicom_files,      \* the list handed to process_images
    idx,              \* position of process_images' for loop (1-based)
    injected,         \* per file handled so far: did its transformation raise
    processed_files,  \* process_images' accumulator and return value
    engine_calls,     \* number of times process_images was entered
    sns_calls,        \* the publish calls made on self.sns
    log,              \* the records the root logger emitted
    raised,           \* the exception that left the run, or "none"
    alarms,           \* the alarms the metrics service holds, in listing order
    mon_pc,           \* position of monitor_system_health
    mon_resp,         \* response['MetricAlarms'] of describe_alarms
    mon_k,            \* position of the sweep's for loop (1-based)
    alert_calls,      \* the publish calls made on self.sns_client
    sup_log,          \* the records log_event emitted
    mon_raised,       \* the exception that left the sweep, or "none"
    rem_calls,        \* number of calls of auto_resolve_issues
    lambda_calls,     \* the invoke calls made on self.lambda_client
    rem_returns,      \* what each call of auto_resolve_issues returned
    rem_raised,       \* the exception that left auto_resolve_issues, or "none"
    query_records,    \* the records of the window that match the audit query
    query_status,     \* the log service's status of the query: "none", "Running", "Complete"
    query_avail,      \* how many matching records the log service has found so far
    aud_pc,           \* position of audit_system_access
    start_calls,      \* number of start_query calls made
    aud_resp          \* the response of get_query_results, once read

pipeVars == <<entry, bucket, pc, trace, list_call, dicom_files, idx, injected,
              processed_files, engine_calls, sns_calls, log, raised>>

monVars == <<alarms, mon_pc, mon_resp, mon_k, alert_calls, sup_log, mon_raised>>

remVars == <<rem_calls, lambda_calls, rem_returns, rem_raised>>

audVars == <<query_records, query_status, query_avail, aud_pc, start_calls, aud_resp>>

vars == <<pipeVars, monVars, remVars, audVars>>

\* Notification targets an alarm may name in AlarmActions.
Targets == {"alert-topic", "alarm-action"}

\* StateValue of an alarm.
AlarmStates == {"OK", "ALARM", "INSUFFICIENT_DATA"}

\* What the metrics service holds of one alarm besides its name.
AlarmBodies ==
    [StateValue : AlarmStates, AlarmActions : BoundedSeq(Targets, MaxActions)]

\* The alarm lists of the metrics service: the alarm at position p is named p.
AlarmLists ==
    {[p \in 1..Len(l) |->
        [AlarmName |-> p, StateValue |-> l[p].StateValue,
         AlarmActions |-> l[p].AlarmActions]] :
     l \in BoundedSeq(AlarmBodies, MaxAlarms)}

\* No pipeline run has been started.
PipelineIdle ==
    /\ pc = "IDLE"
    /\ trace = <<"IDLE">>
    /\ list_call = "none"
    /\ idx = 1
    /\ injected = <<>>
    /\ processed_files = <<>>
    /\ engine_calls = 0
    /\ sns_calls = <<>>
    /\ log = <<>>
    /\ raised = "none"

\* No sweep has been started.
MonitorIdle ==
    /\ mon_pc = "IDLE"
    /\ mon_resp = <<>>
    /\ mon_k = 1
    /\ alert_calls = <<>>
    /\ sup_log = <<>>
    /\ mon_raised = "none"

\* auto_resolve_issues has not been called.
RemediatorIdle ==
    /\ rem_calls = 0
    /\ lambda_calls = <<>>
    /\ rem_returns = <<>>
    /\ rem_raised = "none"

\* No audit scan has been started.
AuditIdle ==
    /\ query_status = "none"
    /\ query_avail = 0
    /\ aud_pc = "IDLE"
    /\ start_calls = 0
    /\ aud_resp = [status |-> "none", results |-> <<>>]

Init ==
    /\ entry \in {"run_pipeline", "process_images"}
    /\ IF entry = "run_pipeline"
         THEN /\ bucket \in DistinctSeq(KeyPool, MaxFiles)
              /\ dicom_files = <<>>
         ELSE /\ bucket = <<>>
              /\ dicom_files \in BoundedSeq(KeyPool, MaxFiles)
    /\ PipelineIdle
    /\ alarms = <<>>
    /\ MonitorIdle
    /\ RemediatorIdle
    /\ query_records = <<>>
    /\ AuditIdle

\* ---------------------------------------------------- fetch_dicom_files
\* What s3.list_objects_v2 answers for a bucket: the call fails, or it
\* returns a response that carries 'Contents' only when the bucket holds
\* at least one object.
ListObjectsV2(objects, callOk) ==
    [ok |-> callOk, hasContents |-> objects # <<>>, Contents |-> objects]

\* fetch_dicom_files with the failure of the listing call caught and an
\* empty list returned in its place.
FetchResultSwallow(resp) ==
    IF ~resp.ok \/ ~resp.hasContents
      THEN [raised |-> "none", files |-> <<>>,
            recs |-> <<LogRecord("INFO", "Found DICOM files", <<>>, <<0>>)>>]
    ELSE LET found == SelectSeq(resp.Contents, LAMBDA k : EndsWith(k, DcmSuffix))
         IN  [raised |-> "none", files |-> found,
              recs |-> <<LogRecord("INFO", "Found DICOM files", <<>>, <<Len(found)>>)>>]

\* fetch_dicom_files: the error of the call and the KeyError of
\* files['Contents'] both leave the method; otherwise the keys that end in
\* '.dcm', in listing order.
FetchResult(resp) ==
    IF ~resp.ok
      THEN [raised |-> "ClientError", files |-> <<>>, recs |-> <<>>]
    ELSE IF ~resp.hasContents
      THEN [raised |-> "KeyError", files |-> <<>>, recs |-> <<>>]
    ELSE LET found == SelectSeq(resp.Contents, LAMBDA k : EndsWith(k, DcmSuffix))
         IN  [raised |-> "none", files |-> found,
              recs |-> <<LogRecord("INFO", "Found DICOM files", <<>>, <<Len(found)>>)>>]

\* run_pipeline with the emptiness test left out.
TruthyAlways(files) == TRUE

\* `if dicom_files:` in run_pipeline.
Truthy(files) == files # <<>>

\* ------------------------------------------------------- process_images
\* The point where the transformation of one file raises: <<i, j>> is
\* sub-operation j of stage i; NoFault is a transformation that completes.
NoFault == <<NumStages, 0>>
Faults == ((0..(NumStages - 1)) \X (0..(NumSubOps - 1))) \cup {NoFault}

\* The marker test done on the end of the key only.
AlreadyProcessedSuffix(file) == EndsWith(file, ProcessedSuffix)

\* `'processed' not in file`, negated.
AlreadyProcessed(file) == Contains(file, ProcessedMarker)

\* The output key without the marker appended.
OutputKeyUnmarked(file) == file

\* file + '_processed'
OutputKey(file) == file \o ProcessedSuffix

\* Whether sub-operation <<i, j>> completes before the fault.
Executed(i, j, fault) ==
    \/ fault = NoFault
    \/ i < fault[1]
    \/ i = fault[1] /\ j < fault[2]

\* The parity rule of the inner loop: which of the two debug lines is logged.
ParityBranch(i, j) == IF (i * j) % 2 = 0 THEN "Condition met" ELSE "Skipping"

\* The log calls of stage i, up to the fault.
StageRecords(file, i, fault) ==
    <<LogRecord("INFO", "Applying operation", file, <<i>>)>> \o
    SelectSeq([j \in 1..NumSubOps |->
                  LogRecord("DEBUG", ParityBranch(i, j - 1), file, <<i, j - 1>>)],
              LAMBDA r : Executed(r.op[1], r.op[2], fault))

RECURSIVE TransformRecords(_, _, _)
\* The log calls of stages i.. of the transformation, up to the fault.
TransformRecords(file, i, fault) ==
    IF i >= NumStages \/ (fault # NoFault /\ i > fault[1]) THEN <<>>
    ELSE StageRecords(file, i, fault) \o TransformRecords(file, i + 1, fault)

\* The else branch with its warning logged at debug level.
OnSkipQuiet(file) ==
    [out |-> <<>>, raised |-> "none",
     recs |-> <<LogRecord("DEBUG", "File already processed", file, <<>>)>>]

\* The else branch: the file carries the marker.
OnSkip(file) ==
    [out |-> <<>>, raised |-> "none",
     recs |-> <<LogRecord("WARNING", "File already processed", file, <<>>)>>]

\* process_images without its try/except: the fault leaves the loop.
OnExceptionPropagate(file, recs) ==
    [out |-> <<>>, raised |-> "Exception", recs |-> recs]

\* `except Exception as e`: the fault is logged and the loop goes on.
OnException(file, recs) ==
    [out |-> <<>>, raised |-> "none",
     recs |-> recs \o <<LogRecord("ERROR", "Failed to process", file, <<>>)>>]

\* One iteration of `for file in dicom_files`: what is appended to
\* processed_files, the log calls made, and the exception leaving the loop.
ProcessOne(file, fault) ==
    IF AlreadyProcessed(file) THEN OnSkip(file)
    ELSE IF fault # NoFault
      THEN OnException(file, TransformRecords(file, 0, fault))
    ELSE [out |-> <<OutputKey(file)>>, raised |-> "none",
          recs |-> TransformRecords(file, 0, fault) \o
                   <<LogRecord("INFO", "Processing complete", file, <<>>)>>]

\* ---------------------------------------------------- notify_completion
\* f"Processing completed for files: {', '.join(processed_files)}"
CompletionMessage(files) == MessageHead \o Join(JoinSep, files)

\* notify_completion with the publish failure caught and logged.
AfterPublishSwallow(ok) ==
    [raised |-> "none",
     recs |-> IF ok
                THEN <<LogRecord("INFO", "Notification sent", <<>>, <<>>)>>
                ELSE <<LogRecord("ERROR", "Error sending notification", <<>>, <<>>)>>]

\* After self.sns.publish: a failed publish leaves notify_completion as an
\* exception, a successful one is logged.
AfterPublish(ok) ==
    IF ok
      THEN [raised |-> "none",
            recs |-> <<LogRecord("INFO", "Notification sent", <<>>, <<>>)>>]
      ELSE [raised |-> "ClientError", recs |-> <<>>]

\* ------------------------------------------------------------- actions
\* run_pipeline is called: it enters fetch_dicom_files.
RunPipeline ==
    /\ UNCHANGED <<monVars, remVars, audVars>>
    /\ pc = "IDLE"
    /\ entry = "run_pipeline"
    /\ pc' = "LISTING"
    /\ trace' = Append(trace, "LISTING")
    /\ UNCHANGED <<entry, bucket, list_call, dicom_files, idx, injected,
                   processed_files, engine_calls, sns_calls, log, raised>>

\* A caller hands a list of keys to process_images.
CallProcessImages ==
    /\ UNCHANGED <<monVars, remVars, audVars>>
    /\ pc = "IDLE"
    /\ entry = "process_images"
    /\ pc' = "PROCESSING"
    /\ trace' = Append(trace, "PROCESSING")
    /\ processed_files' = <<>>
    /\ idx' = 1
    /\ engine_calls' = engine_calls + 1
    /\ UNCHANGED <<entry, bucket, list_call, dicom_files, injected, sns_calls,
                   log, raised>>

\* fetch_dicom_files, then run_pipeline's branch on its result: into
\* process_images, or past the else branch to the end of the run.
FetchDicomFiles ==
    /\ UNCHANGED <<monVars, remVars, audVars>>
    /\ pc = "LISTING"
    /\ \E callOk \in BOOLEAN :
         LET r == FetchResult(ListObjectsV2(bucket, callOk)) IN
         /\ list_call' = IF callOk THEN "ok" ELSE "failed"
         /\ raised' = r.raised
         /\ dicom_files' = r.files
         /\ IF r.raised # "none"
              THEN /\ pc' = "RAISED"
                   /\ log' = log
                   /\ UNCHANGED <<processed_files, idx, engine_calls>>
            ELSE IF Truthy(r.files)
              THEN /\ pc' = "PROCESSING"
                   /\ log' = log \o Emitted(r.recs)
                   /\ processed_files' = <<>>
                   /\ idx' = 1
                   /\ engine_calls' = engine_calls + 1
            ELSE /\ pc' = "DONE"
                 /\ log' = log \o Emitted(r.recs \o
                      <<LogRecord("INFO", "No DICOM files to process", <<>>, <<>>)>>)
                 /\ UNCHANGED <<processed_files, idx, engine_calls>>
         /\ trace' = Append(trace, pc')
    /\ UNCHANGED <<entry, bucket, injected, sns_calls>>

\* One iteration of process_images' loop over dicom_files.
ProcessFile ==
    /\ UNCHANGED <<monVars, remVars, audVars>>
    /\ pc = "PROCESSING"
    /\ idx <= Len(dicom_files)
    /\ \E fault \in Faults :
         LET file == dicom_files[idx]
             r == ProcessOne(file, fault)
         IN  /\ AlreadyProcessed(file) => fault = NoFault
             /\ processed_files' = processed_files \o r.out
             /\ log' = log \o Emitted(r.recs)
             /\ injected' = Append(injected, fault # NoFault)
             /\ raised' = r.raised
             /\ IF r.raised = "none"
                  THEN /\ idx' = idx + 1
                       /\ UNCHANGED <<pc, trace>>
                  ELSE /\ pc' = "RAISED"
                       /\ trace' = Append(trace, "RAISED")
                       /\ idx' = idx
    /\ UNCHANGED <<entry, bucket, list_call, dicom_files, engine_calls, sns_calls>>

\* process_images returns processed_files; its caller hands it to
\* notify_completion.
ProcessReturn ==
    /\ UNCHANGED <<monVars, remVars, audVars>>
    /\ pc = "PROCESSING"
    /\ idx > Len(dicom_files)
    /\ pc' = "NOTIFYING"
    /\ trace' = Append(trace, "NOTIFYING")
    /\ UNCHANGED <<entry, bucket, list_call, dicom_files, idx, injected,
                   processed_files, engine_calls, sns_calls, log, raised>>

\* notify_completion: one publish call, which succeeds or fails.
NotifyCompletion ==
    /\ UNCHANGED <<monVars, remVars, audVars>>
    /\ pc = "NOTIFYING"
    /\ \E ok \in BOOLEAN :
         LET r == AfterPublish(ok) IN
         /\ sns_calls' = Append(sns_calls,
              [TopicArn |-> "MyTopic", Message |-> CompletionMessage(processed_files),
               Subject |-> "DICOM Processing Notification", ok |-> ok])
         /\ log' = log \o Emitted(r.recs)
         /\ raised' = r.raised
         /\ pc' = IF r.raised = "none" THEN "DONE" ELSE "RAISED"
         /\ trace' = Append(trace, pc')
    /\ UNCHANGED <<entry, bucket, list_call, dicom_files, idx, injected,
                   processed_files, engine_calls>>

\* ------------------------------------------------ monitor_system_health
\* describe_alarms(StateValue=state)['MetricAlarms']
DescribeAlarms(all, state) == SelectSeq(all, LAMBDA a : a.StateValue = state)

\* f"Alarm {alarm['AlarmName']} triggered"
AlarmMessage(alarm) == <<"Alarm ", alarm.AlarmName, " triggered">>

\* send_notification with the topic passed by the caller dropped for the
\* default of the parameter.
SendNotificationDefaultTopic(message, topic_arn, ok) ==
    [raised |-> "none",
     calls |-> <<[TopicArn |-> "alert-topic", Message |-> message, ok |-> ok]>>,
     recs |-> IF ok
                THEN <<LogRecord("INFO", "Notification sent", "alert-topic", message)>>
                ELSE <<LogRecord("ERROR", "Error sending notification", <<>>, <<>>)>>]

\* send_notification: one publish call; its failure is logged, not raised.
SendNotification(message, topic_arn, ok) ==
    [raised |-> "none",
     calls |-> <<[TopicArn |-> topic_arn, Message |-> message, ok |-> ok]>>,
     recs |-> IF ok
                THEN <<LogRecord("INFO", "Notification sent", topic_arn, message)>>
                ELSE <<LogRecord("ERROR", "Error sending notification", <<>>, <<>>)>>]

\* One iteration of the sweep's loop: alarm['AlarmActions'][0] raises
\* IndexError on an empty list, before send_notification is called.
SweepOne(alarm, ok) ==
    IF alarm.AlarmActions = <<>>
      THEN [raised |-> "IndexError", calls |-> <<>>, recs |-> <<>>]
      ELSE SendNotification(AlarmMessage(alarm), alarm.AlarmActions[1], ok)

\* monitor_system_health is called: describe_alarms answers or fails.
MonitorSystemHealth ==
    /\ mon_pc = "IDLE"
    /\ \E callOk \in BOOLEAN :
         IF callOk
           THEN /\ mon_resp' = DescribeAlarms(alarms, "ALARM")
                /\ mon_pc' = "SWEEPING"
                /\ mon_raised' = mon_raised
           ELSE /\ mon_resp' = mon_resp
                /\ mon_pc' = "RAISED"
                /\ mon_raised' = "ClientError"
    /\ UNCHANGED <<alarms, mon_k, alert_calls, sup_log>>
    /\ UNCHANGED <<pipeVars, remVars, audVars>>

\* One iteration of `for alarm in response['MetricAlarms']`.
SweepAlarm ==
    /\ mon_pc = "SWEEPING"
    /\ mon_k <= Len(mon_resp)
    /\ \E ok \in BOOLEAN :
         LET r == SweepOne(mon_resp[mon_k], ok) IN
         /\ alert_calls' = alert_calls \o r.calls
         /\ sup_log' = sup_log \o Emitted(r.recs)
         /\ mon_raised' = r.raised
         /\ IF r.raised = "none"
              THEN /\ mon_k' = mon_k + 1
                   /\ mon_pc' = mon_pc
              ELSE /\ mon_k' = mon_k
                   /\ mon_pc' = "RAISED"
    /\ UNCHANGED <<alarms, mon_resp>>
    /\ UNCHANGED <<pipeVars, remVars, audVars>>

\* The loop is exhausted: monitor_system_health returns.
SweepReturn ==
    /\ mon_pc = "SWEEPING"
    /\ mon_k > Len(mon_resp)
    /\ mon_pc' = "DONE"
    /\ UNCHANGED <<alarms, mon_resp, mon_k, alert_calls, sup_log, mon_raised>>
    /\ UNCHANGED <<pipeVars, remVars, audVars>>

\* The supervisory path alone, over every alarm list of the metrics service.
MonitorInit ==
    /\ entry = "run_pipeline"
    /\ bucket = <<>>
    /\ dicom_files = <<>>
    /\ PipelineIdle
    /\ alarms \in AlarmLists
    /\ MonitorIdle
    /\ RemediatorIdle
    /\ query_records = <<>>
    /\ AuditIdle

MonitorNext ==
    \/ MonitorSystemHealth
    \/ SweepAlarm
    \/ SweepReturn

MonitorSpec == MonitorInit /\ [][MonitorNext]_vars

\* -------------------------------------------------- auto_resolve_issues
\* Names of remediation functions a caller may pass.
FunctionNames == {"auto-resolution-handler"}

\* The payload of the remediation request.
Payloads == {"{\"issue_type\": \"reboot_instance\"}"}

\* The response of an accepted invoke call.
InvokeResponse(function_name) == [kind |-> "response", FunctionName |-> function_name]

\* Python's None, what a method returns when it falls off its end.
NoneValue == [kind |-> "None", FunctionName |-> ""]

\* auto_resolve_issues without its try/except: a failed invoke leaves it.
AutoResolveNoCatch(function_name, payload, ok) ==
    [calls |-> <<[FunctionName |-> function_name, InvocationType |-> "Event",
                  Payload |-> payload, ok |-> ok]>>,
     raised |-> IF ok THEN "none" ELSE "ClientError",
     ret |-> IF ok THEN <<InvokeResponse(function_name)>> ELSE <<>>,
     recs |-> IF ok
                THEN <<LogRecord("INFO", "Invoked Lambda function", function_name, <<>>)>>
                ELSE <<>>]

\* auto_resolve_issues: one invoke call with InvocationType='Event'; its
\* response is returned once the call is accepted; its failure is logged at
\* error level and the method returns None.
AutoResolve(function_name, payload, ok) ==
    [calls |-> <<[FunctionName |-> function_name, InvocationType |-> "Event",
                  Payload |-> payload, ok |-> ok]>>,
     raised |-> "none",
     ret |-> IF ok THEN <<InvokeResponse(function_name)>> ELSE <<NoneValue>>,
     recs |-> IF ok
                THEN <<LogRecord("INFO", "Invoked Lambda function", function_name, <<>>)>>
                ELSE <<LogRecord("ERROR", "Error invoking Lambda function", <<>>, <<>>)>>]

\* One call of auto_resolve_issues: the invocation is accepted or fails.
AutoResolveIssues ==
    /\ rem_calls < MaxCalls
    /\ rem_raised = "none"
    /\ \E function_name \in FunctionNames, payload \in Payloads, ok \in BOOLEAN :
         LET r == AutoResolve(function_name, payload, ok) IN
         /\ rem_calls' = rem_calls + 1
         /\ lambda_calls' = lambda_calls \o r.calls
         /\ rem_returns' = rem_returns \o r.ret
         /\ rem_raised' = r.raised
         /\ sup_log' = sup_log \o Emitted(r.recs)
    /\ UNCHANGED <<alarms, mon_pc, mon_resp, mon_k, alert_calls, mon_raised>>
    /\ UNCHANGED <<pipeVars, audVars>>

\* -------------------------------------------------- audit_system_access
\* Log records that may match the audit query in the window.
AuditRecords == {"login-failure-1", "login-failure-2"}

\* What logs_client.get_query_results answers: the query's status and the
\* matching records the log service has found so far.
GetQueryResults(records, status, avail) ==
    [status |-> status, results |-> SubSeq(records, 1, avail)]

\* `for result in response['results']`: one warning per record read.
FindingRecords(results) ==
    [k \in 1..Len(results) |->
        LogRecord("WARNING", "Unusual access pattern detected", results[k], <<>>)]

\* `except Exception as e` of audit_system_access.
AuditError == <<LogRecord("ERROR", "Error auditing system access", <<>>, <<>>)>>

\* audit_system_access is called: start_query answers with a query id, and
\* the log service begins to run the query, or the call fails, which is
\* logged and ends the scan.
AuditStartQuery ==
    /\ aud_pc = "IDLE"
    /\ start_calls' = start_calls + 1
    /\ \E ok \in BOOLEAN :
         IF ok
           THEN /\ query_status' = "Running"
                /\ aud_pc' = "STARTED"
                /\ sup_log' = sup_log
           ELSE /\ query_status' = query_status
                /\ aud_pc' = "DONE"
                /\ sup_log' = sup_log \o Emitted(AuditError)
    /\ UNCHANGED <<query_records, query_avail, aud_resp>>
    /\ UNCHANGED <<alarms, mon_pc, mon_resp, mon_k, alert_calls, mon_raised>>
    /\ UNCHANGED <<pipeVars, remVars>>

\* The log service works on the query: it finds one more matching record,
\* or, having found them all, completes the query.
LogServiceProgress ==
    /\ query_status = "Running"
    /\ IF query_avail < Len(query_records)
         THEN /\ query_avail' = query_avail + 1
              /\ query_status' = query_status
         ELSE /\ query_avail' = query_avail
              /\ query_status' = "Complete"
    /\ UNCHANGED <<query_records, aud_pc, start_calls, aud_resp>>
    /\ UNCHANGED <<monVars, pipeVars, remVars>>

\* The one get_query_results call and the loop over its results; a failed
\* call is logged and ends the scan.
AuditGetResults ==
    /\ aud_pc = "STARTED"
    /\ \E ok \in BOOLEAN :
         IF ok
           THEN LET resp == GetQueryResults(query_records, query_status, query_avail)
                IN  /\ aud_resp' = resp
                    /\ sup_log' = sup_log \o Emitted(FindingRecords(resp.results))
           ELSE /\ aud_resp' = aud_resp
                /\ sup_log' = sup_log \o Emitted(AuditError)
    /\ aud_pc' = "DONE"
    /\ UNCHANGED <<query_records, query_status, query_avail, start_calls>>
    /\ UNCHANGED <<alarms, mon_pc, mon_resp, mon_k, alert_calls, mon_raised>>
    /\ UNCHANGED <<pipeVars, remVars>>

\* The remediation call and the audit scan alone, over every set of
\* matching records.
SupportInit ==
    /\ entry = "run_pipeline"
    /\ bucket = <<>>
    /\ dicom_files = <<>>
    /\ PipelineIdle
    /\ alarms = <<>>
    /\ MonitorIdle
    /\ RemediatorIdle
    /\ query_records \in BoundedSeq(AuditRecords, MaxRecords)
    /\ AuditIdle

SupportNext ==
    \/ AutoResolveIssues
    \/ AuditStartQuery
    \/ LogServiceProgress
    \/ AuditGetResults

SupportSpec == SupportInit /\ [][SupportNext]_vars

\* ------------------------------------------- batch run and supervision
\* The batches of the concurrent runs: one through run_pipeline, one handed
\* to process_images.
ConcBucket == <<KeyA, KeyD>>
ConcFiles == <<KeyC, KeyB>>

\* The alarm lists of the concurrent runs: one whose second alarm has no
\* action, one whose alarms all have one.
ConcAlarms ==
    {<<[AlarmName |-> 1, StateValue |-> "ALARM",
        AlarmActions |-> <<"alarm-action", "alert-topic">>],
       [AlarmName |-> 2, StateValue |-> "ALARM", AlarmActions |-> <<>>]>>,
     <<[AlarmName |-> 1, StateValue |-> "OK", AlarmActions |-> <<"alert-topic">>],
       [AlarmName |-> 2, StateValue |-> "ALARM", AlarmActions |-> <<"alert-topic">>]>>}

\* A batch run, a sweep, remediation calls and an audit scan, none started.
ConcurrentInit ==
    /\ entry \in {"run_pipeline", "process_images"}
    /\ bucket = (IF entry = "run_pipeline" THEN ConcBucket ELSE <<>>)
    /\ dicom_files = (IF entry = "run_pipeline" THEN <<>> ELSE ConcFiles)
    /\ PipelineIdle
    /\ alarms \in ConcAlarms
    /\ MonitorIdle
    /\ RemediatorIdle
    /\ query_records = <<"login-failure-1">>
    /\ AuditIdle

\* The support script is one thread: it calls a method only when the
\* method it called before has ended.
SupervisorFree == mon_pc # "SWEEPING" /\ aud_pc # "STARTED"

\* The steps of the batch run and of the supervisory path, in any order.
ConcurrentNext ==
    \/ RunPipeline
    \/ CallProcessImages
    \/ FetchDicomFiles
    \/ ProcessFile
    \/ ProcessReturn
    \/ NotifyCompletion
    \/ SupervisorFree /\ MonitorSystemHealth
    \/ SweepAlarm
    \/ SweepReturn
    \/ SupervisorFree /\ AutoResolveIssues
    \/ SupervisorFree /\ AuditStartQuery
    \/ LogServiceProgress
    \/ AuditGetResults

ConcurrentSpec == ConcurrentInit /\ [][ConcurrentNext]_vars

\* ------------------------------------------------------ derived views
\* The per-asset outcome records of process_images, in log order.
Outcomes ==
    SelectSeq(log, LAMBDA r : r.event \in
        {"Processing complete", "File already processed", "Failed to process"})

\* The status the k-th outcome record reports.
Status(k) ==
    CASE Outcomes[k].event = "Processing complete" -> "succeeded"
      [] Outcomes[k].event = "File already processed" -> "skipped"
      [] Outcomes[k].event = "Failed to process" -> "failed"

\* The status of an asset in the run where no failure is injected.
Nominal(file) ==
    IF Contains(file, ProcessedMarker) THEN "skipped" ELSE "succeeded"

RECURSIVE SucceededFrom(_)
\* Source key + marker of every succeeded asset from position k on, in input order.
SucceededFrom(k) ==
    IF k > Len(Outcomes) \/ k > Len(dicom_files) THEN <<>>
    ELSE (IF Status(k) = "succeeded"
            THEN <<dicom_files[k] \o ProcessedSuffix>> ELSE <<>>)
         \o SucceededFrom(k + 1)

\* process_images has returned to its caller.
EngineReturned == engine_calls = 1 /\ pc \in {"NOTIFYING", "DONE"}

\* The keys of the bucket that end in '.dcm', in listing order.
Eligible == SelectSeq(bucket, LAMBDA k : EndsWith(k, DcmSuffix))

IsPrefix(s, t) == Len(s) <= Len(t) /\ SubSeq(t, 1, Len(s)) = s

\* ----------------------------------------------------------- claims
\* C1: fault isolation. process_images never raises past its boundary; an
\* asset whose transformation raises is reported failed; every other asset
\* has the status it has in the run with no failure injected, and the
\* assets after a failing one are still processed.
C1_FaultIsolation ==
    /\ raised # "none" => trace[Len(trace) - 1] # "PROCESSING"
    /\ Len(injected) = idx - 1
    /\ Len(Outcomes) = Len(injected)
    /\ \A k \in 1..Len(injected) :
         /\ Outcomes[k].file = dicom_files[k]
         /\ injected[k] => Status(k) = "failed"
         /\ ~injected[k] => Status(k) = Nominal(dicom_files[k])
    /\ EngineReturned => Len(Outcomes) = Len(dicom_files)

\* C1 witness: the second of three assets fails, the first and the third succeed.
C1_Witness ==
    /\ pc = "DONE"
    /\ injected = <<FALSE, TRUE, FALSE>>
    /\ Len(Outcomes) = 3
    /\ Status(1) = "succeeded" /\ Status(2) = "failed" /\ Status(3) = "succeeded"

C3_MarkedIsSkipped ==
    \A k \in 1..Len(injected) :
        Contains(dicom_files[k], ProcessedMarker) =>
            /\ k <= Len(Outcomes) /\ Status(k) = "skipped"
            /\ ~injected[k]
            /\ \A p \in 1..Len(log) :
                 log[p].event = "Applying operation" => log[p].file # dicom_files[k]
            /\ \A p \in 1..Len(processed_files) :
                 processed_files[p] # dicom_files[k] \o ProcessedSuffix

\* C3 witness: a marked key that does not end in the marker stands between
\* two assets that are processed.
C3_Witness ==
    /\ pc = "DONE"
    /\ dicom_files = <<KeyA, KeyD, KeyB>>
    /\ Status(1) = "succeeded" /\ Status(2) = "skipped" /\ Status(3) = "succeeded"

\* C4: a run of run_pipeline makes exactly one publish call when the list
\* of eligible assets is non-empty and none when it is empty.
C4_PublishCount ==
    entry = "run_pipeline" =>
        /\ Len(sns_calls) <= 1
        /\ pc \in {"DONE", "RAISED"} =>
             Len(sns_calls) = (IF dicom_files # <<>> THEN 1 ELSE 0)

\* C4 witness: a finished run whose assets were all skipped or failed, with
\* its one publish call.
C4_Witness ==
    /\ entry = "run_pipeline"
    /\ pc = "DONE"
    /\ Len(dicom_files) = 2
    /\ Status(1) = "skipped" /\ Status(2) = "failed"
    /\ Len(sns_calls) = 1

\* C4 witness of the empty side: a finished run over a bucket that holds no
\* eligible key, with no publish call.
C4_WitnessEmpty ==
    /\ entry = "run_pipeline"
    /\ pc = "DONE"
    /\ bucket # <<>> /\ dicom_files = <<>>
    /\ sns_calls = <<>>

\* C6 as stated: a run whose listing call succeeds goes IDLE, LISTING,
\* PROCESSING, NOTIFYING, DONE when an asset is eligible and IDLE, LISTING,
\* DONE otherwise (a bucket with no objects included), without the engine
\* on the short path and without raising.
C6_StateTrace ==
    (entry = "run_pipeline" /\ list_call = "ok") =>
        /\ raised = "none"
        /\ IsPrefix(trace, IF Eligible # <<>>
                             THEN <<"IDLE", "LISTING", "PROCESSING", "NOTIFYING", "DONE">>
                             ELSE <<"IDLE", "LISTING", "DONE">>)
        /\ Eligible = <<>> => engine_calls = 0

\* C7: a failed listing call leaves the run as an exception, with no list,
\* no engine invocation and no publish call.
C7_ListingFailureAborts ==
    list_call = "failed" =>
        /\ raised = "ClientError"
        /\ trace = <<"IDLE", "LISTING", "RAISED">>
        /\ dicom_files = <<>>
        /\ engine_calls = 0
        /\ sns_calls = <<>>
        /\ log = <<>>

\* C7 witness: the listing call failed on a bucket that holds eligible keys.
C7_Witness ==
    /\ list_call = "failed"
    /\ Len(Eligible) >= 2

\* C8: a failed publish call leaves the run as an exception; the engine's
\* results stay as they were and the engine is not run again.
C8_PublishFailureReported ==
    (sns_calls # <<>> /\ ~sns_calls[Len(sns_calls)].ok) =>
        /\ raised = "ClientError"
        /\ trace[Len(trace)] = "RAISED" /\ trace[Len(trace) - 1] = "NOTIFYING"
        /\ Len(sns_calls) = 1
        /\ engine_calls = 1
        /\ Len(Outcomes) = Len(dicom_files)
        /\ processed_files = SucceededFrom(1)

\* C8 witness: the publish call failed after the engine produced an output.
C8_Witness ==
    /\ sns_calls # <<>>
    /\ ~sns_calls[1].ok
    /\ Len(processed_files) >= 1
    /\ Len(dicom_files) >= 2

\* C9: the completion message lists, in input order, exactly source key +
\* marker of every succeeded asset; for [a.dcm, b.dcm, c.dcm_processed] it
\* lists a.dcm_processed, b.dcm_processed.
C9_MessageListsSucceeded ==
    sns_calls # <<>> =>
        /\ sns_calls[1].Message = MessageHead \o Join(JoinSep, SucceededFrom(1))
        /\ (dicom_files = <<KeyA, KeyB, KeyC>> /\ injected = <<FALSE, FALSE, FALSE>>) =>
             sns_calls[1].Message =
                 <<"Processing completed for files: ",
                   "a", ".", "d", "c", "m", "_", "p", "r", "o", "c", "e", "s", "s", "e", "d",
                   ",", " ",
                   "b", ".", "d", "c", "m", "_", "p", "r", "o", "c", "e", "s", "s", "e", "d">>

\* C9 witness: the batch [a.dcm, b.dcm, c.dcm_processed] has been published.
C9_Witness ==
    /\ sns_calls # <<>>
    /\ dicom_files = <<KeyA, KeyB, KeyC>>
    /\ injected = <<FALSE, FALSE, FALSE>>
    /\ pc = "DONE"

\* ---------------------------------------------------- claims, monitor
\* The first action target of every alarm in ALARM state that has one, in
\* listing order.
RECURSIVE FirstTargets(_)
FirstTargets(l) ==
    IF l = <<>> THEN <<>>
    ELSE (IF l[1].StateValue = "ALARM" /\ l[1].AlarmActions # <<>>
            THEN <<l[1].AlarmActions[1]>> ELSE <<>>)
         \o FirstTargets(Tail(l))

\* The sweep has ended after describe_alarms answered.
SweepEnded == mon_pc \in {"DONE", "RAISED"} /\ mon_raised # "ClientError"

\* C5 as stated: one sweep makes exactly one publish call per alarm in ALARM
\* state, to that alarm's first action target, and none for any other alarm.
C5_SweepNotifiesFirstAction ==
    SweepEnded =>
        [c \in 1..Len(alert_calls) |-> alert_calls[c].TopicArn] = FirstTargets(alarms)

\* C10 as stated: an alarm in ALARM state with no action is a no-op: the
\* sweep does not raise and the other alarms in ALARM state are notified.
C10_NoActionIsNoOp ==
    (\E p \in 1..Len(mon_resp) : mon_resp[p].AlarmActions = <<>>) =>
        /\ mon_raised # "IndexError"
        /\ mon_pc # "RAISED"
        /\ mon_pc = "DONE" => Len(alert_calls) = Len(FirstTargets(alarms))

\* ---------------------------------------------------- claims, support
\* The positions of the invoke calls that failed.
FailedInvokes == {k \in 1..Len(lambda_calls) : ~lambda_calls[k].ok}

\* The records of sup_log with a given event.
SupEvents(event) == SelectSeq(sup_log, LAMBDA r : r.event = event)

\* C11: every call of auto_resolve_issues makes exactly one invoke call, of
\* type Event; an accepted invocation returns its response to the caller; a
\* failed one is logged at error level, returns None and is never raised.
C11_RemediationBestEffort ==
    /\ rem_raised = "none"
    /\ Len(lambda_calls) = rem_calls
    /\ Len(rem_returns) = rem_calls
    /\ \A k \in 1..Len(lambda_calls) :
         /\ lambda_calls[k].InvocationType = "Event"
         /\ Len(rem_returns) >= k =>
              rem_returns[k] = (IF lambda_calls[k].ok
                                  THEN [kind |-> "response",
                                        FunctionName |-> lambda_calls[k].FunctionName]
                                  ELSE [kind |-> "None", FunctionName |-> ""])
    /\ Len(SupEvents("Error invoking Lambda function")) = Cardinality(FailedInvokes)
    /\ \A p \in 1..Len(sup_log) :
         sup_log[p].event = "Error invoking Lambda function" => sup_log[p].level = "ERROR"
    /\ Len(SupEvents("Invoked Lambda function")) = rem_calls - Cardinality(FailedInvokes)

\* C11 witness: two calls, the first failed, the second accepted.
C11_Witness ==
    /\ rem_calls = 2
    /\ ~lambda_calls[1].ok /\ lambda_calls[2].ok
    /\ rem_returns[1].kind = "None" /\ rem_returns[2].kind = "response"

\* The records the scan reported as findings, in order.
Findings ==
    LET w == SupEvents("Unusual access pattern detected")
    IN  [k \in 1..Len(w) |-> w[k].file]

\* C12 as stated: a scan makes one start_query, reads the results of the
\* query once it is no longer pending, and reports exactly the matching
\* records of the completed query.
C12_ScanReportsCompletedQuery ==
    (aud_pc = "DONE" /\ SupEvents("Error auditing system access") = <<>>) =>
        /\ start_calls = 1
        /\ aud_resp.status = "Complete"
        /\ Findings = query_records

\* ------------------------------------------------ claims, concurrency
RECURSIVE ExpectedOutputs(_)
\* The output keys of a batch run that executes alone, from position k on:
\* source key + marker of every unmarked asset whose transformation did not
\* raise.
ExpectedOutputs(k) ==
    IF k > Len(injected) THEN <<>>
    ELSE (IF ~injected[k] /\ ~Contains(dicom_files[k], ProcessedMarker)
            THEN <<dicom_files[k] \o ProcessedSuffix>> ELSE <<>>)
         \o ExpectedOutputs(k + 1)

\* The batch run's results and message are those of the run alone: a
\* function of its own assets, faults and publish outcome.
BatchAsAlone ==
    /\ Len(Outcomes) = Len(injected)
    /\ \A k \in 1..Len(Outcomes) :
         /\ Outcomes[k].file = dicom_files[k]
         /\ Status(k) = (IF injected[k] THEN "failed" ELSE Nominal(dicom_files[k]))
    /\ processed_files = ExpectedOutputs(1)
    /\ sns_calls # <<>> =>
         /\ Len(sns_calls) = 1
         /\ sns_calls[1].Message = MessageHead \o Join(JoinSep, ExpectedOutputs(1))
    /\ \A p \in 1..Len(log) :
         log[p].event \in {"Found DICOM files", "No DICOM files to process",
                           "Applying operation", "Processing complete",
                           "File already processed", "Failed to process",
                           "Notification sent"}

\* The supervisory notifications are those of the sweep alone: the first
\* action target of every alarm the loop has passed, with that alarm's message.
SupervisionAsAlone ==
    /\ Len(alert_calls) = mon_k - 1
    /\ \A c \in 1..Len(alert_calls) :
         /\ alert_calls[c].TopicArn = mon_resp[c].AlarmActions[1]
         /\ alert_calls[c].Message = <<"Alarm ", mon_resp[c].AlarmName, " triggered">>
    /\ mon_pc \in {"SWEEPING", "DONE"} =>
         mon_resp = SelectSeq(alarms, LAMBDA a : a.StateValue = "ALARM")
    /\ Len(lambda_calls) = rem_calls
    /\ Len(Findings) <= query_avail

\* A step that changes the batch run's state leaves the supervisory state
\* as it is, and a step that changes the supervisory state leaves the batch
\* run's state as it is.
NoCrossWrites ==
    /\ pipeVars' # pipeVars => <<monVars, remVars, audVars>>' = <<monVars, remVars, audVars>>
    /\ <<monVars, remVars, audVars>>' # <<monVars, remVars, audVars>> => pipeVars' = pipeVars

\* C13: under every interleaving of supervisory steps, failing ones
\* included, with the steps of a batch run, the batch run's results and
\* completion message and the supervisory notifications are those of each
\* path executing alone, and no step of one path writes state of the other.
C13_PathsIndependent ==
    /\ [](BatchAsAlone /\ SupervisionAsAlone)
    /\ [][NoCrossWrites]_vars

\* C13 witness: the batch run and the sweep are both in flight, each past
\* its first item, after a publish of the sweep and a remediation call
\* failed and the audit scan ended in an error.
C13_Witness ==
    /\ pc = "PROCESSING" /\ idx = 2 /\ Len(processed_files) = 1
    /\ mon_pc = "SWEEPING" /\ mon_k = 2
    /\ ~alert_calls[1].ok
    /\ rem_calls >= 1 /\ ~lambda_calls[1].ok
    /\ aud_pc = "DONE"
    /\ SupEvents("Error auditing system access") # <<>>

Next ==
    \/ RunPipeline
    \/ CallProcessImages
    \/ FetchDicomFiles
    \/ ProcessFile
    \/ ProcessReturn
    \/ NotifyCompletion

Spec == Init /\ [][Next]_vars
====
